---- MODULE Spec2Model ----
(***************************************************************************)
(* Model of the UI-automation auto-accept watcher                          *)
(* (extension/resources/uia_clicker.py): the watch loop of main() and the  *)
(* three-strategy activation cascade of click_button().                    *)
(*                                                                         *)
(* The program is one sequential thread; pc is its position.  The          *)
(* accessibility backend is the environment: every backend call returns a  *)
(* value drawn from a small set or raises, the control behind the handle   *)
(* the program holds can change or vanish at any moment (UiChange), and    *)
(* the interrupt signal can be delivered at any position                   *)
(* (KeyboardInterrupt).  History variables are local to one cycle or one   *)
(* cascade call, so the state space is finite without a cycle counter.     *)
(***************************************************************************)
EXTENDS Naturals, Sequences, FiniteSets

\* ---------------------------------------------------------------- bounds
MaxWindows == 2

\* ------------------------------------------------------------- constants
TargetClass == "Chrome_WidgetWin_1"
OtherClass == "Other"
WindowClasses == {TargetClass, OtherClass}

\* values of --delay the model distinguishes: 0 (the default) and positive
Delays == {0, 1}

\* real state of the control a handle refers to
CtlStates == {"absent", "enabled", "disabled"}

\* call sites of click_button in main(): lines 101, 106 and 111
SiteAccept == "accept"
SiteConfirmAfter == "confirm_after"
SiteConfirmAlone == "confirm_alone"

VARIABLES
    click_delay,  \* args.delay
    pc,           \* position of the single thread
    wins,         \* class tags of root.GetChildren(), in enumeration order
    idx,          \* index in wins of the loop variable `window` (0: none)
    site,         \* call site of the running click_button call, or "none"
    ctl,          \* real UI state of the control behind the held handle
    result,       \* return value of click_button: "none", "T", "F"
    attempts,     \* history, per cascade call: strategies tried and outcome
    exRes,        \* history, per cascade call: what Exists(0, 0) returned
    enRes,        \* history, per cascade call: what IsEnabled returned
    fresh,        \* history: existence verified and no sleep since
    settled,      \* history, per cascade call: the 0.5 settle sleep was done
    acceptFound,  \* history, per window: Exists of the Accept button
    confirmSeen,  \* history, per cycle: Exists of line 105
    searches,     \* history, per cycle: ButtonControl calls, in order
    acts,         \* history, per cycle: successful activations, in order
    cycErr,       \* history, per cycle: an Exception reached line 114
    log,          \* history, per cycle: kinds of lines written by flush_print
    pollSleeps,   \* history: sleeps of line 117 since the last enumeration
    sigAt,        \* history: pc at which the last interrupt was delivered
    afterSig      \* history: backend calls made since that interrupt

vars == <<click_delay, pc, wins, idx, site, ctl, result, attempts, exRes,
          enRes, fresh, settled, acceptFound, confirmSeen, searches, acts,
          cycErr, log, pollSleeps, sigAt, afterSig>>

cascadeHist == <<attempts, exRes, enRes, settled>>
cycleHist == <<acceptFound, confirmSeen, searches, acts>>

\* ---------------------------------------------------------------- helpers
RECURSIVE SeqsUpTo(_, _)
SeqsUpTo(S, n) ==
    IF n = 0 THEN {<<>>}
    ELSE LET shorter == SeqsUpTo(S, n - 1)
         IN shorter \cup {Append(s, x) : s \in {t \in shorter : Len(t) = n - 1}, x \in S}

\* the window lists root.GetChildren() can return
WindowLists == SeqsUpTo(WindowClasses, MaxWindows)

\* button_type argument passed at each call site
ButtonType(s) == IF s = SiteAccept THEN "Accept" ELSE "Confirm"

Activations == {"Invoke", "DoDefaultAction", "Click"}

\* bookkeeping of one backend call made after an interrupt was delivered
NoteCall(kind) ==
    afterSig' = IF sigAt = "none" THEN afterSig
                ELSE IF kind \in Activations \/ afterSig = "activation"
                     THEN "activation"
                     ELSE "call"

\* a backend call raises an Exception that no handler of click_button
\* catches: control passes to the except clause of the cycle (line 114)
Raise == pc' = "except" /\ cycErr' = TRUE

\* a new handle: window.ButtonControl(searchDepth=15, RegexName=pattern)
ButtonControl(pattern) ==
    /\ searches' = Append(searches, [w |-> idx, pat |-> pattern])
    /\ fresh' = FALSE

\* entry of click_button(button, button_type, click_delay) from call site s
CallClickButton(s) ==
    /\ pc' = "cb_exists"
    /\ site' = s
    /\ result' = "none"
    /\ attempts' = <<>>
    /\ exRes' = "none"
    /\ enRes' = "none"
    /\ settled' = FALSE

\* ------------------------------------------------------------------- Init
Init ==
    /\ click_delay \in Delays
    /\ pc = "enum"
    /\ wins = <<>>
    /\ idx = 0
    /\ site = "none"
    /\ ctl = "none"
    /\ result = "none"
    /\ attempts = <<>>
    /\ exRes = "none"
    /\ enRes = "none"
    /\ fresh = FALSE
    /\ settled = FALSE
    /\ acceptFound = "none"
    /\ confirmSeen = "none"
    /\ searches = <<>>
    /\ acts = <<>>
    /\ cycErr = FALSE
    /\ log = {}
    /\ pollSleeps = 0
    /\ sigAt = "none"
    /\ afterSig = "none"

\* ------------------------------------------------------ main(): the cycle
\* line 95: root.GetChildren() at the start of a cycle
Enumerate ==
    /\ pc = "enum"
    /\ NoteCall("GetChildren")
    /\ idx' = 0
    /\ site' = "none"
    /\ ctl' = "none"
    /\ result' = "none"
    /\ attempts' = <<>>
    /\ exRes' = "none"
    /\ enRes' = "none"
    /\ fresh' = FALSE
    /\ settled' = FALSE
    /\ acceptFound' = "none"
    /\ confirmSeen' = "none"
    /\ searches' = <<>>
    /\ acts' = <<>>
    /\ log' = {}
    /\ pollSleeps' = 0
    /\ \/ /\ wins' \in WindowLists
          /\ pc' = "for_next"
          /\ cycErr' = FALSE
       \/ /\ wins' = <<>>
          /\ Raise
    /\ UNCHANGED <<click_delay, sigAt>>

\* where the for statement of line 95 goes: the next window, or past the loop
ForTarget(i, n) == IF i < n THEN "read_class" ELSE "poll_sleep"

\* line 95: the for statement takes the next window, or the loop is exhausted
ForNext ==
    /\ pc = "for_next"
    /\ pc' = ForTarget(idx, Len(wins))
    /\ idx' = IF idx < Len(wins) THEN idx + 1 ELSE idx
    /\ acceptFound' = "none"
    /\ ctl' = "none"
    /\ site' = "none"
    /\ UNCHANGED <<click_delay, pollSleeps,
                   wins, result, attempts, exRes, enRes, fresh,
                   settled, confirmSeen, searches, acts, cycErr, log, sigAt,
                   afterSig>>

\* mutant: the class filter of lines 96-97 is missing
ClassFilterMissing(cls) == "search_accept"

\* the test of line 96 on the class tag read from the window
ClassFilter(cls) == IF cls # TargetClass THEN "for_next" ELSE "search_accept"

\* lines 96-97: window.ClassName != "Chrome_WidgetWin_1" -> continue
ReadClass ==
    /\ pc = "read_class"
    /\ NoteCall("ClassName")
    /\ \/ pc' = ClassFilter(wins[idx]) /\ UNCHANGED cycErr
       \/ Raise
    /\ UNCHANGED <<click_delay, pollSleeps,
                   wins, idx, site, ctl, result, fresh, sigAt,
                   log>>
    /\ UNCHANGED cascadeHist /\ UNCHANGED cycleHist

\* lines 100-101: search for the Accept button, call click_button on it
SearchAccept ==
    /\ pc = "search_accept"
    /\ NoteCall("ButtonControl")
    /\ ButtonControl("Accept")
    /\ \/ /\ ctl' \in CtlStates
          /\ CallClickButton(SiteAccept)
          /\ UNCHANGED cycErr
       \/ /\ Raise
          /\ UNCHANGED <<ctl, site, result>>
          /\ UNCHANGED cascadeHist
    /\ UNCHANGED <<click_delay, pollSleeps,
                   wins, idx, acceptFound, confirmSeen, acts,
                   log, sigAt>>

\* mutant: a successful Accept breaks out of the loop at once, without the
\* Confirm search of lines 103-106
ReturnTargetNoConfirm(s, r) ==
    IF s = SiteAccept
    THEN IF r = "T" THEN "poll_sleep" ELSE "search_confirm_alone"
    ELSE IF s = SiteConfirmAfter
         THEN "poll_sleep"
         ELSE IF r = "T" THEN "poll_sleep" ELSE "for_next"

\* mutant: the break of line 112 is missing, a successful Confirm-alone
\* cascade is followed by the next window
ReturnTargetNoBreak(s, r) ==
    IF s = SiteAccept
    THEN IF r = "T" THEN "settle_main" ELSE "search_confirm_alone"
    ELSE IF s = SiteConfirmAfter THEN "poll_sleep" ELSE "for_next"

\* mutant: the break of line 107 is taken only when the Confirm cascade
\* succeeded, otherwise the loop goes on with the next window
ReturnTargetBreakOnConfirm(s, r) ==
    IF s = SiteAccept
    THEN IF r = "T" THEN "settle_main" ELSE "search_confirm_alone"
    ELSE IF r = "T" THEN "poll_sleep" ELSE "for_next"

\* mutant: the Confirm-alone search is made only when the Accept button was
\* not found; a found Accept button that was not activated ends the window
ReturnTargetAloneIfAbsent(s, r) ==
    IF s = SiteAccept
    THEN IF r = "T" THEN "settle_main"
         ELSE IF exRes = "F" THEN "search_confirm_alone" ELSE "for_next"
    ELSE IF s = SiteConfirmAfter
         THEN "poll_sleep"
         ELSE IF r = "T" THEN "poll_sleep" ELSE "for_next"

\* where control goes when click_button returns r to call site s
ReturnTarget(s, r) ==
    IF s = SiteAccept
    THEN IF r = "T" THEN "settle_main" ELSE "search_confirm_alone"
    ELSE IF s = SiteConfirmAfter
         THEN "poll_sleep"
         ELSE IF r = "T" THEN "poll_sleep" ELSE "for_next"

\* lines 101, 106-107, 111-112: the caller's use of click_button's result
CbReturn ==
    /\ pc = "cb_return"
    /\ pc' = ReturnTarget(site, result)
    /\ site' = "none"
    /\ UNCHANGED <<click_delay, pollSleeps,
                   wins, idx, ctl, result, fresh, cycErr,
                   log, sigAt, afterSig>>
    /\ UNCHANGED cascadeHist /\ UNCHANGED cycleHist

\* line 103: time.sleep(0.5) after a successful Accept
SettleMain ==
    /\ pc = "settle_main"
    /\ pc' = "search_confirm_after"
    /\ fresh' = FALSE
    /\ UNCHANGED <<click_delay, pollSleeps,
                   wins, idx, site, ctl, result, cycErr, log,
                   sigAt, afterSig>>
    /\ UNCHANGED cascadeHist /\ UNCHANGED cycleHist

\* line 104: search for the Confirm button after a successful Accept
SearchConfirmAfter ==
    /\ pc = "search_confirm_after"
    /\ NoteCall("ButtonControl")
    /\ ButtonControl("Confirm")
    /\ \/ /\ ctl' \in CtlStates
          /\ pc' = "exists_confirm"
          /\ UNCHANGED cycErr
       \/ /\ Raise
          /\ UNCHANGED ctl
    /\ UNCHANGED <<click_delay, pollSleeps,
                   wins, idx, site, result, acceptFound,
                   confirmSeen, acts, log, sigAt>>
    /\ UNCHANGED cascadeHist

\* lines 105-107: if confirm_button.Exists(0, 0): click_button(...); break
ExistsConfirm ==
    /\ pc = "exists_confirm"
    /\ NoteCall("Exists")
    /\ \/ /\ ctl # "absent"
          /\ confirmSeen' = "T"
          /\ fresh' = TRUE
          /\ CallClickButton(SiteConfirmAfter)
          /\ UNCHANGED cycErr
       \/ /\ ctl = "absent"
          /\ confirmSeen' = "F"
          /\ pc' = "poll_sleep"
          /\ UNCHANGED <<site, result, fresh, cycErr>>
          /\ UNCHANGED cascadeHist
       \/ /\ Raise
          /\ UNCHANGED <<site, result, fresh, confirmSeen>>
          /\ UNCHANGED cascadeHist
    /\ UNCHANGED <<click_delay, pollSleeps,
                   wins, idx, ctl, acceptFound, searches, acts,
                   log, sigAt>>

\* lines 110-111: search for the Confirm button alone, call click_button
SearchConfirmAlone ==
    /\ pc = "search_confirm_alone"
    /\ NoteCall("ButtonControl")
    /\ ButtonControl("Confirm")
    /\ \/ /\ ctl' \in CtlStates
          /\ CallClickButton(SiteConfirmAlone)
          /\ UNCHANGED cycErr
       \/ /\ Raise
          /\ UNCHANGED <<ctl, site, result>>
          /\ UNCHANGED cascadeHist
    /\ UNCHANGED <<click_delay, pollSleeps,
                   wins, idx, acceptFound, confirmSeen, acts,
                   log, sigAt>>

\* mutant: the Exception is not caught inside the while loop and ends main()
ExceptTargetUncaught == "done"

\* mutant: the handler ends with continue, the poll sleep is skipped
ExceptTargetNoSleep == "enum"

\* mutant: the try is inside the for loop, an error only skips the window
ExceptTargetNextWindow == "for_next"

\* where the except clause of the cycle leaves control
ExceptTarget == "poll_sleep"

\* lines 114-115: except Exception as e: pass
CatchException ==
    /\ pc = "except"
    /\ pc' = ExceptTarget
    /\ UNCHANGED <<click_delay, pollSleeps,
                   wins, idx, site, ctl, result, fresh, cycErr,
                   log, sigAt, afterSig>>
    /\ UNCHANGED cascadeHist /\ UNCHANGED cycleHist

\* line 117: time.sleep(0.5), then the next iteration of while True
PollSleep ==
    /\ pc = "poll_sleep"
    /\ pc' = "enum"
    /\ fresh' = FALSE
    /\ pollSleeps' = pollSleeps + 1
    /\ UNCHANGED <<click_delay, wins, idx, site, ctl, result, cycErr, log,
                   sigAt, afterSig>>
    /\ UNCHANGED cascadeHist /\ UNCHANGED cycleHist

\* --------------------------------------------------- click_button()
\* one strategy attempt, as recorded in the history of the cascade call
Attempt(strategy, outcome) == [s |-> strategy, r |-> outcome, fresh |-> fresh]

\* one successful activation, as recorded in the history of the cycle
Activation(strategy) ==
    [w |-> idx, pat |-> ButtonType(site), s |-> strategy, n |-> Len(searches)]

\* mutant: the result of Exists is ignored, the cascade goes on to line 19
CbExistsIgnored ==
    /\ pc = "cb_exists"
    /\ NoteCall("Exists")
    /\ \/ /\ exRes' = IF ctl # "absent" THEN "T" ELSE "F"
          /\ fresh' = (ctl # "absent")
          /\ pc' = "cb_name"
          /\ UNCHANGED <<result, cycErr>>
       \/ /\ Raise
          /\ UNCHANGED <<exRes, result, fresh>>
    /\ acceptFound' = IF site = SiteAccept /\ exRes' # "none"
                      THEN exRes' ELSE acceptFound
    /\ UNCHANGED <<click_delay, pollSleeps, wins, idx, site, ctl, attempts,
                   enRes, settled, confirmSeen, searches, acts, log, sigAt>>

\* lines 16-17: if not button.Exists(0, 0): return False
CbExists ==
    /\ pc = "cb_exists"
    /\ NoteCall("Exists")
    /\ \/ /\ ctl # "absent"
          /\ exRes' = "T"
          /\ fresh' = TRUE
          /\ pc' = "cb_name"
          /\ UNCHANGED <<result, cycErr>>
       \/ /\ ctl = "absent"
          /\ exRes' = "F"
          /\ result' = "F"
          /\ pc' = "cb_return"
          /\ UNCHANGED <<fresh, cycErr>>
       \/ /\ Raise
          /\ UNCHANGED <<exRes, result, fresh>>
    /\ acceptFound' = IF site = SiteAccept /\ exRes' # "none"
                      THEN exRes' ELSE acceptFound
    /\ UNCHANGED <<click_delay, pollSleeps,
                   wins, idx, site, ctl, attempts, enRes,
                   settled, confirmSeen, searches, acts, log, sigAt>>

\* line 19: name = button.Name
CbName ==
    /\ pc = "cb_name"
    /\ NoteCall("Name")
    /\ \/ pc' = "cb_print_found" /\ UNCHANGED cycErr
       \/ Raise
    /\ UNCHANGED <<click_delay, pollSleeps,
                   wins, idx, site, ctl, result, fresh, log,
                   sigAt>>
    /\ UNCHANGED cascadeHist /\ UNCHANGED cycleHist

\* lines 20-21: try: flush_print(f"Found {button_type} button: {name}")
CbPrintFound ==
    /\ pc = "cb_print_found"
    /\ \/ pc' = "cb_enabled" /\ log' = log \cup {"found"}
       \/ pc' = "cb_print_unprintable" /\ UNCHANGED log
    /\ UNCHANGED <<click_delay, pollSleeps,
                   wins, idx, site, ctl, result, fresh, cycErr,
                   sigAt, afterSig>>
    /\ UNCHANGED cascadeHist /\ UNCHANGED cycleHist

\* lines 22-23: except: flush_print("Found ... button (name unprintable)")
CbPrintUnprintable ==
    /\ pc = "cb_print_unprintable"
    /\ pc' = "cb_enabled"
    /\ log' = log \cup {"found_unprintable"}
    /\ UNCHANGED <<click_delay, pollSleeps,
                   wins, idx, site, ctl, result, fresh, cycErr,
                   sigAt, afterSig>>
    /\ UNCHANGED cascadeHist /\ UNCHANGED cycleHist

\* mutant: the strategies are tried whatever IsEnabled returned
EnabledTargetUnchecked(enabled, delay) ==
    IF delay > 0 THEN "cb_delay" ELSE "cb_invoke"

\* mutant: the strategies are nested under `if click_delay > 0`
EnabledTargetUnderDelay(enabled, delay) ==
    IF enabled /\ delay > 0 THEN "cb_delay" ELSE "cb_return"

\* lines 25-27 and 64: where control goes after the read of IsEnabled
EnabledTarget(enabled, delay) ==
    IF enabled
    THEN IF delay > 0 THEN "cb_delay" ELSE "cb_invoke"
    ELSE "cb_return"

\* line 25: if button.IsEnabled: ... (else line 64: return False)
CbEnabled ==
    /\ pc = "cb_enabled"
    /\ NoteCall("IsEnabled")
    /\ \/ /\ enRes' = IF ctl = "enabled" THEN "T" ELSE "F"
          /\ pc' = EnabledTarget(ctl = "enabled", click_delay)
          /\ result' = IF pc' = "cb_return" THEN "F" ELSE result
          /\ UNCHANGED cycErr
       \/ /\ Raise
          /\ UNCHANGED <<enRes, result>>
    /\ UNCHANGED <<click_delay, pollSleeps,
                   wins, idx, site, ctl, attempts, exRes, fresh,
                   settled, log, sigAt>>
    /\ UNCHANGED cycleHist

\* lines 26-27: if click_delay > 0: time.sleep(click_delay)
CbDelay ==
    /\ pc = "cb_delay"
    /\ pc' = "cb_invoke"
    /\ fresh' = FALSE
    /\ UNCHANGED <<click_delay, pollSleeps,
                   wins, idx, site, ctl, result, cycErr, log,
                   sigAt, afterSig>>
    /\ UNCHANGED cascadeHist /\ UNCHANGED cycleHist

\* mutant: no return after a successful Invoke, method 2 is tried as well
InvokeTargetFallThrough(ok) == "cb_legacy_get"

\* lines 36-40: after Invoke, return through the settle sleep or fall through
InvokeTarget(ok) == IF ok THEN "cb_settle_invoke" ELSE "cb_legacy_get"

\* lines 32-40: method 1, button.Invoke()
CbInvoke ==
    /\ pc = "cb_invoke"
    /\ NoteCall("Invoke")
    /\ \/ /\ ctl = "enabled"
          /\ attempts' = Append(attempts, Attempt(1, "ok"))
          /\ acts' = Append(acts, Activation(1))
          /\ log' = log \cup {"invoke_ok"}
          /\ pc' = InvokeTarget(TRUE)
       \/ /\ attempts' = Append(attempts, Attempt(1, "fail"))
          /\ log' = log \cup {"invoke_failed"}
          /\ pc' = InvokeTarget(FALSE)
          /\ UNCHANGED acts
    /\ UNCHANGED <<click_delay, pollSleeps,
                   wins, idx, site, ctl, result, exRes, enRes,
                   fresh, settled, acceptFound, confirmSeen, searches,
                   cycErr, sigAt>>

\* lines 37-38: time.sleep(0.5); return True
CbSettleInvoke ==
    /\ pc = "cb_settle_invoke"
    /\ settled' = TRUE
    /\ fresh' = FALSE
    /\ result' = "T"
    /\ pc' = "cb_return"
    /\ UNCHANGED <<click_delay, pollSleeps,
                   wins, idx, site, ctl, attempts, exRes, enRes,
                   cycErr, log, sigAt, afterSig>>
    /\ UNCHANGED cycleHist

\* lines 43-46: legacy = button.GetLegacyIAccessiblePattern(); if legacy:
CbLegacyGet ==
    /\ pc = "cb_legacy_get"
    /\ NoteCall("GetLegacyIAccessiblePattern")
    /\ \/ /\ pc' = "cb_legacy_do"
          /\ UNCHANGED <<attempts, log>>
       \/ /\ attempts' = Append(attempts, Attempt(2, "unsupported"))
          /\ pc' = "cb_click"
          /\ UNCHANGED log
       \/ /\ attempts' = Append(attempts, Attempt(2, "fail"))
          /\ log' = log \cup {"legacy_failed"}
          /\ pc' = "cb_click"
    /\ UNCHANGED <<click_delay, pollSleeps,
                   wins, idx, site, ctl, result, exRes, enRes,
                   fresh, settled, cycErr, sigAt>>
    /\ UNCHANGED cycleHist

\* mutant: no return after a successful DoDefaultAction
LegacyTargetFallThrough(ok) == "cb_click"

\* mutant: a failure of DoDefaultAction ends the cascade
LegacyTargetAbort(ok) == IF ok THEN "cb_settle_legacy" ELSE "cb_return"

\* lines 49-53: after DoDefaultAction, return through the settle sleep or
\* fall through
LegacyTarget(ok) == IF ok THEN "cb_settle_legacy" ELSE "cb_click"

\* lines 47-53: method 2, legacy.DoDefaultAction()
CbLegacyDo ==
    /\ pc = "cb_legacy_do"
    /\ NoteCall("DoDefaultAction")
    /\ \/ /\ ctl = "enabled"
          /\ attempts' = Append(attempts, Attempt(2, "ok"))
          /\ acts' = Append(acts, Activation(2))
          /\ log' = log \cup {"legacy_ok"}
          /\ pc' = LegacyTarget(TRUE)
       \/ /\ attempts' = Append(attempts, Attempt(2, "fail"))
          /\ log' = log \cup {"legacy_failed"}
          /\ pc' = LegacyTarget(FALSE)
          /\ UNCHANGED acts
    /\ UNCHANGED <<click_delay, pollSleeps,
                   wins, idx, site, ctl, result, exRes, enRes,
                   fresh, settled, acceptFound, confirmSeen, searches,
                   cycErr, sigAt>>

\* lines 50-51: time.sleep(0.5); return True
CbSettleLegacy ==
    /\ pc = "cb_settle_legacy"
    /\ settled' = TRUE
    /\ fresh' = FALSE
    /\ result' = "T"
    /\ pc' = "cb_return"
    /\ UNCHANGED <<click_delay, pollSleeps,
                   wins, idx, site, ctl, attempts, exRes, enRes,
                   cycErr, log, sigAt, afterSig>>
    /\ UNCHANGED cycleHist

\* lines 60-64: what click_button returns after the physical click
ClickResult(ok) == IF ok THEN "T" ELSE "F"

\* lines 56-64: method 3, button.Click(simulateMove=False)
CbClick ==
    /\ pc = "cb_click"
    /\ NoteCall("Click")
    /\ \/ /\ ctl # "absent"
          /\ attempts' = Append(attempts, Attempt(3, "ok"))
          /\ acts' = Append(acts, Activation(3))
          /\ log' = log \cup {"click_ok"}
          /\ result' = ClickResult(TRUE)
       \/ /\ attempts' = Append(attempts, Attempt(3, "fail"))
          /\ log' = log \cup {"click_failed"}
          /\ result' = ClickResult(FALSE)
          /\ UNCHANGED acts
    /\ pc' = "cb_return"
    /\ UNCHANGED <<click_delay, pollSleeps,
                   wins, idx, site, ctl, exRes, enRes, fresh,
                   settled, acceptFound, confirmSeen, searches, cycErr,
                   sigAt>>

\* ------------------------------------------------------------ environment
\* positions at which the program still holds and uses a control handle
HandlePcs == {"exists_confirm", "cb_exists", "cb_name", "cb_print_found",
              "cb_print_unprintable", "cb_enabled", "cb_delay", "cb_invoke",
              "cb_legacy_get", "cb_legacy_do", "cb_click"}

\* the target application enables, disables or removes the control while the
\* program holds a handle to it (lines 16, 25, 105 read this state)
UiChange ==
    /\ pc \in HandlePcs
    /\ ctl' \in CtlStates \ {ctl}
    /\ UNCHANGED <<click_delay, pollSleeps,
                   pc, wins, idx, site, result, fresh, cycErr,
                   log, sigAt, afterSig>>
    /\ UNCHANGED cascadeHist /\ UNCHANGED cycleHist

Stopped == {"stopping", "done"}

\* mutant: the poll sleep sits inside a try with a bare except
InterruptTargetSleepSwallowed(p) ==
    IF p = "cb_print_found" THEN "cb_print_unprintable"
    ELSE IF p = "poll_sleep" THEN "enum" ELSE "stopping"

\* the handler a KeyboardInterrupt raised at position p reaches: the bare
\* except of line 22 inside the try of lines 20-21, otherwise line 119
InterruptTarget(p) ==
    IF p = "cb_print_found" THEN "cb_print_unprintable" ELSE "stopping"

\* the interrupt signal is delivered: KeyboardInterrupt is raised at pc
KeyboardInterrupt ==
    /\ pc \notin Stopped
    /\ pc' = InterruptTarget(pc)
    /\ sigAt' = pc
    /\ afterSig' = "none"
    /\ UNCHANGED <<click_delay, pollSleeps,
                   wins, idx, site, ctl, result, fresh, cycErr,
                   log>>
    /\ UNCHANGED cascadeHist /\ UNCHANGED cycleHist

\* lines 119-120: except KeyboardInterrupt: flush_print("Stopping ...")
Stopping ==
    /\ pc = "stopping"
    /\ pc' = "done"
    /\ log' = log \cup {"stopping"}
    /\ UNCHANGED <<click_delay, pollSleeps,
                   wins, idx, site, ctl, result, fresh, cycErr,
                   sigAt, afterSig>>
    /\ UNCHANGED cascadeHist /\ UNCHANGED cycleHist

\* ---------------------------------------------------------- specification
\* the steps of the program itself
Prog ==
    \/ Enumerate
    \/ ForNext
    \/ ReadClass
    \/ SearchAccept
    \/ CbReturn
    \/ SettleMain
    \/ SearchConfirmAfter
    \/ ExistsConfirm
    \/ SearchConfirmAlone
    \/ CatchException
    \/ PollSleep
    \/ CbExists
    \/ CbName
    \/ CbPrintFound
    \/ CbPrintUnprintable
    \/ CbEnabled
    \/ CbDelay
    \/ CbInvoke
    \/ CbSettleInvoke
    \/ CbLegacyGet
    \/ CbLegacyDo
    \/ CbSettleLegacy
    \/ CbClick
    \/ Stopping

Next == Prog \/ UiChange \/ KeyboardInterrupt

Spec == Init /\ [][Next]_vars

\* the interpreter always takes the next step of the running thread
FairSpec == Spec /\ WF_vars(Prog)

\* ------------------------------------------------------------ properties
StrategyPcs == {"cb_delay", "cb_invoke", "cb_settle_invoke", "cb_legacy_get",
                "cb_legacy_do", "cb_settle_legacy", "cb_click"}

Failed(a) == a.r \in {"fail", "unsupported"}

\* C1: in a cascade call on a control that exists (Exists returned true) and
\* reports itself disabled (IsEnabled returned false), no strategy is tried
\* or about to be tried, and the call returns False.
C1_DisabledNeverActivated ==
    (site # "none" /\ exRes = "T" /\ enRes = "F") =>
        /\ attempts = <<>>
        /\ pc \notin StrategyPcs
        /\ result = "F"

C1_Witness ==
    /\ pc = "cb_return"
    /\ site = SiteAccept
    /\ exRes = "T"
    /\ enRes = "F"
    /\ ctl = "disabled"

\* C2: within one cascade call the i-th strategy tried is strategy i (order
\* 1, 2, 3), only the last one tried can have succeeded, and after a success
\* the call is not at any later strategy.
C2_OrderedStopAtFirstSuccess ==
    /\ \A i \in 1..Len(attempts) :
          /\ attempts[i].s = i
          /\ attempts[i].r = "ok" => i = Len(attempts)
    /\ (site # "none" /\ \E i \in 1..Len(attempts) : attempts[i].r = "ok") =>
          pc \in {"cb_settle_invoke", "cb_settle_legacy", "cb_return"} \cup Stopped

C2_Witness ==
    /\ pc = "cb_return"
    /\ Len(attempts) = 1
    /\ attempts[1].s = 1
    /\ attempts[1].r = "ok"
    /\ result = "T"

\* C3: the physical click is made, or about to be made, in a cascade call
\* only after strategy 1 was tried and failed and strategy 2 was tried and
\* failed or was unavailable in that call.
C3_ClickOnlyAfterBothFailed ==
    ((site # "none" /\ pc = "cb_click") \/ \E i \in 1..Len(attempts) : attempts[i].s = 3) =>
        /\ Len(attempts) >= 2
        /\ attempts[1].s = 1 /\ attempts[1].r = "fail"
        /\ attempts[2].s = 2 /\ Failed(attempts[2])

C3_Witness ==
    /\ pc = "cb_return"
    /\ Len(attempts) = 3
    /\ attempts[3].s = 3
    /\ attempts[3].r = "ok"

\* C4: in a cascade call where strategies 1 and 2 both failed, the call is
\* about to try strategy 3 or has tried it exactly once and returned, False
\* when the click failed; an Exception leaves a cascade call only before any
\* strategy was tried.
C4_FailureDoesNotAbort ==
    /\ (site # "none" /\ Len(attempts) >= 2 /\ Failed(attempts[1]) /\ Failed(attempts[2])) =>
          \/ pc = "cb_click" /\ Len(attempts) = 2
          \/ /\ pc = "cb_return"
             /\ Len(attempts) = 3
             /\ attempts[3].s = 3
             /\ result = IF attempts[3].r = "fail" THEN "F" ELSE "T"
          \/ pc \in Stopped
    /\ (site # "none" /\ pc = "except") => attempts = <<>>

C4_Witness ==
    /\ pc = "cb_return"
    /\ Len(attempts) = 3
    /\ attempts[1].r = "fail"
    /\ attempts[2].r = "unsupported"
    /\ attempts[3].r = "fail"
    /\ result = "F"

SearchPcs == {"search_accept", "search_confirm_after", "exists_confirm",
              "search_confirm_alone", "settle_main", "cb_exists", "cb_name",
              "cb_print_found", "cb_print_unprintable", "cb_enabled",
              "cb_return"} \cup StrategyPcs

\* C5: in every cycle every control search and every activation is on a
\* window whose class tag is the target class, and the program is inside the
\* search or cascade code only for such a window.
C5_OnlyTargetClassSearched ==
    /\ \A i \in 1..Len(searches) : wins[searches[i].w] = TargetClass
    /\ \A i \in 1..Len(acts) : wins[acts[i].w] = TargetClass
    /\ pc \in SearchPcs => wins[idx] = TargetClass

C5_Witness ==
    /\ Len(wins) = 2
    /\ wins[1] = OtherClass
    /\ idx = 2
    /\ searches # <<>>
    /\ acts # <<>>

\* C6: after a successful Accept activation the only search made in the rest
\* of the cycle is one Confirm search on the same window; when the cycle has
\* ended that search has been made, and if it found no Confirm control the
\* cycle ended without an error.
C6_ConfirmSearchAfterAccept ==
    (acts # <<>> /\ acts[1].pat = "Accept") =>
        /\ Len(searches) <= acts[1].n + 1
        /\ Len(searches) = acts[1].n + 1 =>
              searches[Len(searches)] = [w |-> acts[1].w, pat |-> "Confirm"]
        /\ pc \in {"poll_sleep", "enum"} =>
              /\ Len(searches) = acts[1].n + 1
              /\ confirmSeen = "F" => ~cycErr

C6_Witness ==
    /\ pc = "poll_sleep"
    /\ acts # <<>>
    /\ acts[1].pat = "Accept"
    /\ confirmSeen = "F"
    /\ ~cycErr

\* C7: when Exists of the Accept button of a window returned false and, in
\* the Confirm-alone cascade on the same window, Exists and IsEnabled
\* returned true, the cascade is about to call Invoke or has tried strategy 1
\* on that button.
C7_ConfirmAloneInvoked ==
    (site = SiteConfirmAlone /\ acceptFound = "F" /\ exRes = "T" /\ enRes = "T") =>
        \/ pc \in {"cb_delay", "cb_invoke"} /\ attempts = <<>>
        \/ attempts # <<>> /\ attempts[1].s = 1
        \/ pc \in Stopped

C7_Witness ==
    /\ pc = "cb_return"
    /\ site = SiteConfirmAlone
    /\ acceptFound = "F"
    /\ exRes = "T"
    /\ enRes = "T"
    /\ Len(attempts) = 1
    /\ acts = <<[w |-> idx, pat |-> "Confirm", s |-> 1, n |-> Len(searches)]>>

\* C8: the loop ends only by cancellation, and every cycle that raised is
\* followed by a new call of root.GetChildren(), unless it is cancelled.
C8_LoopSurvivesError ==
    /\ [](pc \in Stopped => sigAt # "none")
    /\ (pc = "except") ~> (pc = "enum" \/ pc \in Stopped)
    /\ (pc = "enum" /\ cycErr) ~> (pc \in {"for_next", "except"} \/ pc \in Stopped)

C8_Witness ==
    /\ pc = "enum"
    /\ cycErr
    /\ sigAt = "none"

\* C9: after an interrupt delivered during the poll sleep of line 117 the
\* program is stopping or has stopped, and has made no backend call since.
C9_CancelBetweenCycles ==
    sigAt = "poll_sleep" => (pc \in Stopped /\ afterSig = "none")

C9_Witness ==
    /\ sigAt = "poll_sleep"
    /\ pc = "done"
    /\ "stopping" \in log

\* C10: every activation primitive is called with the existence of the
\* control verified since the most recent sleep.
C10_ExistenceFreshAtActivation ==
    \A i \in 1..Len(attempts) : attempts[i].r # "unsupported" => attempts[i].fresh

\* C11: every cascade call that returns True has done the 0.5 settle sleep
\* after the activating call.
C11_SettleBeforeSuccess ==
    (site # "none" /\ result = "T") => settled

\* C12 (as claimed): in one cycle every control search is on the first
\* target-class window of the enumeration.
C12_OnlyFirstTargetWindow ==
    \A i \in 1..Len(searches) :
        \A v \in 1..(searches[i].w - 1) : wins[v] # TargetClass

\* C12 (amended): in one cycle the windows are searched in enumeration order
\* and no search is made on a window later than one that received a
\* successful activation; a later target-class window is searched only while
\* no activation has succeeded in the cycle.
C12_StopsAtFirstActivatedWindow ==
    /\ \A i \in 1..Len(searches) : \A j \in 1..Len(acts) :
          searches[i].w <= acts[j].w
    /\ \A i \in 1..Len(searches) : \A k \in 1..i :
          searches[k].w <= searches[i].w

C12_Witness ==
    /\ Len(wins) = 2
    /\ wins[1] = TargetClass
    /\ wins[2] = TargetClass
    /\ pc = "poll_sleep"
    /\ Len(searches) = 2
    /\ acts # <<>>
    /\ acts[1].w = 1
    /\ acts[1].pat = "Confirm"

\* C13: the program arrives at the enumeration of line 95 only from the poll
\* sleep of line 117, which has then been done exactly once since the
\* previous enumeration; at every other position of a cycle no poll sleep
\* has been done yet.
C13_OnePollSleepPerCycle ==
    /\ [][(pc' = "enum" /\ pc # "enum") =>
             (pc = "poll_sleep" /\ pollSleeps = 0 /\ pollSleeps' = 1)]_vars
    /\ [](pc \notin ({"enum"} \cup Stopped) => pollSleeps = 0)
    /\ [](pollSleeps <= 1)

C13_Witness ==
    /\ pc = "enum"
    /\ pollSleeps = 1
    /\ cycErr
    /\ sigAt = "none"

\* C14: once an interrupt has been delivered the program is stopping or has
\* stopped, and no activation primitive has been called since.
C14_CancellationNeverLost ==
    sigAt # "none" => (pc \in Stopped /\ afterSig # "activation")

\* C15: in a cascade call where Exists returned false, IsEnabled is not
\* read, no delay is made, no strategy is tried and the call returns False.
C15_NotFoundReturnsAtOnce ==
    (site # "none" /\ exRes = "F") =>
        /\ pc \in {"cb_return"} \cup Stopped
        /\ result = "F"
        /\ enRes = "none"
        /\ attempts = <<>>
        /\ ~settled

C15_Witness ==
    /\ pc = "cb_return"
    /\ site = SiteConfirmAfter
    /\ exRes = "F"
    /\ confirmSeen = "T"
    /\ ctl = "absent"

\* C16: after a backend error was raised in a cycle the program is at the
\* except clause, at the poll sleep or at the next enumeration (or stopped):
\* no search, property read or activation follows the error in that cycle,
\* and the histories of searches and activations no longer change.
C16_ErrorAbortsCycle ==
    /\ [](cycErr => pc \in {"except", "poll_sleep", "enum"} \cup Stopped)
    /\ [][(cycErr /\ pc # "enum") => UNCHANGED <<searches, acts, idx>>]_vars

C16_Witness ==
    /\ pc = "poll_sleep"
    /\ cycErr
    /\ Len(wins) = 2
    /\ wins[2] = TargetClass
    /\ idx = 1
    /\ searches # <<>>

\* C17: when a cycle that raised has reached the poll sleep, a loop-error
\* line has been written in that cycle.
C17_LoopErrorLogged ==
    (cycErr /\ pc \in {"poll_sleep", "enum"}) => "loop_error" \in log

\* C18: when the Accept cascade returns, the Confirm-alone search of line
\* 110 comes next exactly if it returned False; at that search the Accept
\* button was not found, or was found disabled, or was found enabled and all
\* three strategies failed.
C18_ConfirmAloneIffAcceptFailed ==
    /\ [][(pc = "cb_return" /\ site = SiteAccept /\ pc' \notin {"cb_return"} \cup Stopped)
             => (result = "F" <=> pc' = "search_confirm_alone")]_vars
    /\ [][(pc' = "search_confirm_alone" /\ pc # "search_confirm_alone")
             => (pc = "cb_return" /\ site = SiteAccept)]_vars
    /\ [](pc = "search_confirm_alone" =>
             /\ result = "F"
             /\ \/ exRes = "F"
                \/ exRes = "T" /\ enRes = "F"
                \/ /\ enRes = "T"
                   /\ Len(attempts) = 3
                   /\ \A i \in 1..3 : Failed(attempts[i]))

C18_Witness ==
    /\ pc = "cb_invoke"
    /\ site = SiteConfirmAlone
    /\ acceptFound = "T"
    /\ ctl = "enabled"
    /\ Len(searches) = 2
    /\ searches[1].w = searches[2].w

\* C19: in one cycle there are at most two successful activations, all on
\* the same window, two only as an Accept followed by a Confirm, and every
\* search made after the first of them is on that window.
C19_OneWindowActivatedPerCycle ==
    /\ Len(acts) <= 2
    /\ \A j \in 1..Len(acts) : acts[j].w = acts[1].w
    /\ Len(acts) = 2 => (acts[1].pat = "Accept" /\ acts[2].pat = "Confirm")
    /\ \A i \in 1..Len(searches) :
          (acts # <<>> /\ i > acts[1].n) => searches[i].w = acts[1].w

C19_Witness ==
    /\ Len(wins) = 2
    /\ wins[2] = TargetClass
    /\ pc = "poll_sleep"
    /\ Len(acts) = 2
    /\ acts[1].w = 1
    /\ idx = 1

====
